---- MODULE Spec2Model ----
(***************************************************************************)
(* S3ParquetReader (src/python/boto3/s3_parquet_reader.py): listing the    *)
(* keys under a prefix, fetching and decoding each key (sequentially or on *)
(* a ThreadPoolExecutor), attaching the partition values parsed from the   *)
(* key, and concatenating the tables, for one prefix or a list of them.    *)
(*                                                                         *)
(* A string is a sequence of one-character strings; the suffix ".parquet"  *)
(* is written as the single symbol ".parquet".                             *)
(***************************************************************************)
EXTENDS Integers, Sequences, FiniteSets, TLC

\* ------------------------------------------------------------ bounds
\* max_threads given by the caller ranges over 1..MaxThreads.
MaxThreads == 2
\* os.cpu_count() ranges over 0..MaxCpu (0 stands for None).
MaxCpu == 1
\* Keys handed to _parse_s3_key alone have at most MaxLen characters.
MaxLen == 6

\* ------------------------------------------------------------ strings
Min(a, b) == IF a <= b THEN a ELSE b

Range(s) == {s[n] : n \in 1..Len(s)}

\* str.endswith
EndsWith(s, c) == Len(s) > 0 /\ s[Len(s)] = c

\* The Prefix= filter of the object store.
StartsWith(s, p) == Len(p) <= Len(s) /\ SubSeq(s, 1, Len(p)) = p

\* Position of the first sep in s, 0 when there is none.
FirstIndex(s, sep) ==
    IF \E n \in 1..Len(s) : s[n] = sep
    THEN CHOOSE n \in 1..Len(s) : s[n] = sep /\ \A m \in 1..(n - 1) : s[m] # sep
    ELSE 0

\* str.split(sep): the pieces between the separators, the ends included.
Split(s, sep) ==
    LET at == {n \in 1..Len(s) : s[n] = sep}
        cut == [k \in 0..(Cardinality(at) + 1) |->
                  IF k = 0 THEN 0
                  ELSE IF k = Cardinality(at) + 1 THEN Len(s) + 1
                  ELSE CHOOSE n \in at : Cardinality({m \in at : m < n}) = k - 1]
    IN  [k \in 1..(Cardinality(at) + 1) |-> SubSeq(s, cut[k - 1] + 1, cut[k] - 1)]

\* str.split(sep, 1)
SplitOnce(s, sep) ==
    LET n == FirstIndex(s, sep) IN
    IF n = 0 THEN <<s>>
    ELSE <<SubSeq(s, 1, n - 1), SubSeq(s, n + 1, Len(s))>>

\* ------------------------------------------------------------ dicts
EmptyDict == [c \in {} |-> <<>>]

DictSet(d, k, v) == [c \in (DOMAIN d) \cup {k} |-> IF c = k THEN v ELSE d[c]]

\* ------------------------------------------------------------ _parse_s3_key
\* The mutant: the part is split at every '=' and kept only when that gives
\* exactly two pieces.
ParsePartStrict(part, extract_columns, details) ==
    LET pieces == Split(part, "=") IN
    IF Len(pieces) = 2 /\ pieces[1] \in Range(extract_columns)
    THEN DictSet(details, pieces[1], pieces[2])
    ELSE details

\* One iteration of the loop over path_parts.
ParsePart(part, extract_columns, details) ==
    IF "=" \in Range(part)
    THEN LET cv == SplitOnce(part, "=") IN
         IF cv[1] \in Range(extract_columns)
         THEN DictSet(details, cv[1], cv[2])
         ELSE details
    ELSE details

_parse_s3_key(key, extract_columns) ==
    LET path_parts == Split(key, "/")
        details[n \in 0..Len(path_parts)] ==
            IF n = 0 THEN EmptyDict
            ELSE ParsePart(path_parts[n], extract_columns, details[n - 1])
    IN  details[Len(path_parts)]

\* ------------------------------------------------------------ tables
\* A DataFrame: its column names, its index (the positional row identifiers)
\* and its rows. A row is the cell of the data column (the key it was stored
\* under and its position there) and the partition cells set on it.
DataColumn == <<"d">>

\* pd.DataFrame()
EmptyDataFrame == [columns |-> {}, index |-> <<>>, rows |-> <<>>]

\* for col, val in path_details.items(): df[col] = val
SetColumns(df, path_details) ==
    [columns |-> df.columns \cup DOMAIN path_details,
     index   |-> df.index,
     rows    |-> [n \in 1..Len(df.rows) |->
                    [df.rows[n] EXCEPT !.part =
                       [c \in (DOMAIN @) \cup DOMAIN path_details |->
                          IF c \in DOMAIN path_details THEN path_details[c] ELSE @[c]]]]]

RECURSIVE FlattenRows(_)
FlattenRows(dfs) ==
    IF dfs = <<>> THEN <<>> ELSE Head(dfs).rows \o FlattenRows(Tail(dfs))

RECURSIVE FlattenIndex(_)
FlattenIndex(dfs) ==
    IF dfs = <<>> THEN <<>> ELSE Head(dfs).index \o FlattenIndex(Tail(dfs))

\* The mutant: pd.concat(dfs), the inputs' row identifiers kept.
ConcatKeepIndex(dfs) ==
    IF dfs = <<>>
    THEN [ok |-> FALSE, value |-> EmptyDataFrame]
    ELSE [ok |-> TRUE,
          value |-> [columns |-> UNION {dfs[n].columns : n \in 1..Len(dfs)},
                     index   |-> FlattenIndex(dfs),
                     rows    |-> FlattenRows(dfs)]]

\* pd.concat(dfs, ignore_index=True): ValueError ("No objects to concatenate")
\* on an empty list, else the rows in the order of the list, renumbered.
Concat(dfs) ==
    IF dfs = <<>>
    THEN [ok |-> FALSE, value |-> EmptyDataFrame]
    ELSE [ok |-> TRUE,
          value |-> [columns |-> UNION {dfs[n].columns : n \in 1..Len(dfs)},
                     index   |-> [n \in 1..Len(FlattenRows(dfs)) |-> n - 1],
                     rows    |-> FlattenRows(dfs)]]

\* ------------------------------------------------------------ object store
P_G      == <<"p", "/", "g", ".parquet">>
P_README == <<"p", "/", "r">>
P_Y1     == <<"p", "/", "y", "=", "1", "/", "f", ".parquet">>
P_Y2_M5  == <<"p", "/", "y", "=", "2", "/", "m", "=", "5", "/", "f", ".parquet">>
P2_Y1    == <<"p", "2", "/", "y", "=", "1", "/", "f", ".parquet">>

\* The bucket's keys, in the order the store lists them.
Bucket == <<P_G, P_README, P_Y1, P_Y2_M5, P2_Y1>>

\* Rows of the table stored under a key.
StoredRows(key) == IF key = P_Y1 THEN 2 ELSE 1

\* pd.read_parquet on the bytes of a key.
Decode(key) ==
    [columns |-> {DataColumn},
     index   |-> [n \in 1..StoredRows(key) |-> n - 1],
     rows    |-> [n \in 1..StoredRows(key) |->
                    [key |-> key, pos |-> n - 1, part |-> EmptyDict]]]

\* s3_resource.Bucket(bucket).objects.filter(Prefix=prefix)
ListObjects(prefix) == SelectSeq(Bucket, LAMBDA k : StartsWith(k, prefix))

\* ------------------------------------------------------------ state
VARIABLES
    use_multithreading, \* self.use_multithreading
    max_threads,        \* self.max_threads
    corrupt,            \* the keys whose fetch or decode raises
    pc,                 \* where the calling thread is
    exc,                \* what raised the exception that left the call
    api,                \* the method called: "multi" or "cat"
    prefixes,           \* <<filepath>>, or category_prefixes
    extract_columns,    \* <<>> stands for None and for []
    verbose,
    pi,                 \* the prefix being read, an index of prefixes
    s3_keys,            \* read_multiple_parquets_from_s3's s3_keys
    i,                  \* the next key of the sequential comprehension
    tasks,              \* the futures, in submission order
    appended,           \* for each table of dfs, the index in s3_keys of its key
    dfs,                \* read_multiple_parquets_from_s3's dfs
    results,            \* the tables returned for the prefixes so far
    ret,                \* the value returned to the caller
    printed,            \* the lines printed, as a set
    p_pc, p_key, p_cols, p_details  \* a call of _parse_s3_key on its own

vars == <<use_multithreading, max_threads, corrupt, pc, exc, api, prefixes,
          extract_columns, verbose, pi, s3_keys, i, tasks, appended, dfs,
          results, ret, printed, p_pc, p_key, p_cols, p_details>>

callVars == <<api, prefixes, extract_columns, verbose>>
readerVars == <<use_multithreading, max_threads, corrupt>>
parseVars == <<p_pc, p_key, p_cols, p_details>>

\* ------------------------------------------------------------ inputs
ParquetKeys == {k \in Range(Bucket) : EndsWith(k, ".parquet")}

Filepaths == {<<"p">>, <<"p", "/">>, <<"p", "2">>, <<"q">>}

ExtractOptions == {<<>>, <<<<"y">>>>, <<<<"y">>, <<"m">>>>}

PrefixLists == {<<>>, <<<<"p">>>>, <<<<"p">>, <<"p", "2">>>>,
                <<<<"q">>, <<"p", "2", "/">>>>, <<<<"p", "2">>, <<"p", "2">>>>}

Alphabet == {"y", "m", "=", "/"}

Strings(n) == UNION {[1..m -> Alphabet] : m \in 0..n}

ParseSpecs == {<<>>, <<<<"y">>>>, <<<<"y">>, <<"m">>>>, <<<<>>, <<"y", "y">>>>}

\* ------------------------------------------------------------ __init__
DefaultPoolCap == 32
DefaultPoolExtra == 4

\* min(32, (os.cpu_count() or 1) + 4)
DefaultMaxThreads(cpu_count) ==
    Min(DefaultPoolCap, (IF cpu_count = 0 THEN 1 ELSE cpu_count) + DefaultPoolExtra)

Idle ==
    /\ pc = "idle" /\ exc = "none" /\ api = "none" /\ prefixes = <<>>
    /\ extract_columns = <<>> /\ verbose = FALSE /\ pi = 1
    /\ s3_keys = <<>> /\ i = 1 /\ tasks = <<>> /\ appended = <<>>
    /\ dfs = <<>> /\ results = <<>> /\ ret = EmptyDataFrame /\ printed = {}

Init ==
    /\ use_multithreading \in BOOLEAN
    /\ max_threads \in 1..MaxThreads \cup {DefaultMaxThreads(c) : c \in 0..MaxCpu}
    /\ corrupt \in SUBSET ParquetKeys
    /\ Idle
    /\ p_pc = "off" /\ p_key = <<>> /\ p_cols = <<>> /\ p_details = EmptyDict

\* ------------------------------------------------------------ read_parquet_from_s3
\* The mutant: no try/except around the fetch and the decode.
read_parquet_uncaught(key) ==
    IF key \in corrupt
    THEN [ok |-> FALSE, value |-> EmptyDataFrame, error |-> FALSE]
    ELSE [ok |-> TRUE, value |-> Decode(key), error |-> FALSE]

\* ok: the call returned; error: it printed the read error.
read_parquet_from_s3(key) ==
    IF key \in corrupt
    THEN [ok |-> TRUE, value |-> EmptyDataFrame, error |-> TRUE]
    ELSE [ok |-> TRUE, value |-> Decode(key), error |-> FALSE]

\* ------------------------------------------------------------ _get_s3_keys
\* The mutant: the prefix is used as given.
get_s3_keys_as_given(filepath) ==
    SelectSeq(ListObjects(filepath), LAMBDA k : EndsWith(k, ".parquet"))

_get_s3_keys(filepath) ==
    LET fp == IF EndsWith(filepath, "/") THEN filepath ELSE Append(filepath, "/")
    IN  SelectSeq(ListObjects(fp), LAMBDA k : EndsWith(k, ".parquet"))

\* ------------------------------------------------------------ read_multiple_parquets_from_s3
\* if extract_columns: the columns of _parse_s3_key(key, ...) set on df
AttachPartitions(df, key) ==
    IF extract_columns # <<>>
    THEN LET path_details == _parse_s3_key(key, extract_columns)
         IN  SetColumns(df, path_details)
    ELSE df

\* The mutant: the guard is missing.
NoKeysNever(keys) == FALSE

\* if not s3_keys
NoKeys(keys) == keys = <<>>

\* The mutant: the key of the table's place in dfs.
KeyByArrival(j) == s3_keys[Len(dfs) + 1]

\* key = futures[future]
KeyOfFuture(j) == s3_keys[j]

\* The mutant: only the last prefix's table.
CategoryTablesLast == IF results = <<>> THEN <<>> ELSE <<results[Len(results)]>>

\* read_all_categories's dfs
CategoryTables == results

\* The return of read_multiple_parquets_from_s3: to the caller, or into
\* read_all_categories's comprehension, which goes on with the next prefix.
Return(df) ==
    /\ results' = Append(results, df)
    /\ IF api = "multi"
       THEN ret' = df /\ pc' = "done" /\ pi' = pi
       ELSE /\ ret' = ret
            /\ IF pi < Len(prefixes)
               THEN pc' = "list" /\ pi' = pi + 1
               ELSE pc' = "cat_merge" /\ pi' = pi

Raise(what) == pc' = "raised" /\ exc' = what

CallMultiple(filepath, cols, v) ==
    /\ pc = "idle"
    /\ api' = "multi" /\ prefixes' = <<filepath>>
    /\ extract_columns' = cols /\ verbose' = v
    /\ pc' = "list"
    /\ UNCHANGED <<readerVars, exc, pi, s3_keys, i, tasks, appended, dfs,
                   results, ret, printed, parseVars>>

CallCategories(category_prefixes, v) ==
    /\ pc = "idle"
    /\ api' = "cat" /\ prefixes' = category_prefixes
    /\ extract_columns' = <<>> /\ verbose' = v
    /\ pc' = IF category_prefixes = <<>> THEN "cat_merge" ELSE "list"
    /\ UNCHANGED <<readerVars, exc, pi, s3_keys, i, tasks, appended, dfs,
                   results, ret, printed, parseVars>>

\* Lines 72-77: the keys are listed; none is the empty table at once.
ListKeys ==
    /\ pc = "list"
    /\ LET keys == _get_s3_keys(prefixes[pi]) IN
       /\ s3_keys' = keys
       /\ i' = 1 /\ dfs' = <<>> /\ appended' = <<>>
       /\ IF NoKeys(keys)
          THEN /\ printed' = printed \cup {<<"empty", prefixes[pi]>>}
               /\ Return(EmptyDataFrame)
          ELSE /\ printed' = IF verbose THEN printed \cup {<<"loading", keys>>}
                             ELSE printed
               /\ pc' = IF use_multithreading THEN "submit" ELSE "read"
               /\ UNCHANGED <<results, ret, pi>>
    /\ UNCHANGED <<readerVars, callVars, exc, tasks, parseVars>>

\* The listing raises (the store is unreachable, the credentials are refused):
\* nothing catches it.
ListKeysRaises ==
    /\ pc = "list"
    /\ Raise("list")
    /\ UNCHANGED <<readerVars, callVars, pi, s3_keys, i, tasks, appended, dfs,
                   results, ret, printed, parseVars>>

\* Line 95, one key of the comprehension.
ReadNext ==
    /\ pc = "read" /\ i <= Len(s3_keys)
    /\ LET r == read_parquet_from_s3(s3_keys[i]) IN
       IF r.ok
       THEN /\ dfs' = Append(dfs, r.value)
            /\ appended' = Append(appended, i)
            /\ i' = i + 1
            /\ printed' = IF r.error THEN printed \cup {<<"error", s3_keys[i]>>}
                          ELSE printed
            /\ UNCHANGED <<pc, exc>>
       ELSE /\ Raise("fetch")
            /\ UNCHANGED <<dfs, appended, i, printed>>
    /\ UNCHANGED <<readerVars, callVars, pi, s3_keys, tasks, results, ret, parseVars>>

\* Lines 96-100.
ExtractAll ==
    /\ pc = "read" /\ i > Len(s3_keys)
    /\ dfs' = [j \in 1..Len(dfs) |-> AttachPartitions(dfs[j], s3_keys[j])]
    /\ pc' = "merge"
    /\ UNCHANGED <<readerVars, callVars, exc, pi, s3_keys, i, tasks, appended,
                   results, ret, printed, parseVars>>

\* Lines 80-82: the pool is created and one task per key submitted.
Submit ==
    /\ pc = "submit"
    /\ tasks' = [j \in 1..Len(s3_keys) |->
                   [state |-> "pending", yielded |-> FALSE, ok |-> TRUE,
                    value |-> EmptyDataFrame]]
    /\ pc' = "collect"
    /\ UNCHANGED <<readerVars, callVars, exc, pi, s3_keys, i, appended, dfs,
                   results, ret, printed, parseVars>>

Running == {j \in 1..Len(tasks) : tasks[j].state = "running"}

\* A worker of the pool takes the oldest pending task; at most max_threads run.
WorkerStart(j) ==
    /\ tasks[j].state = "pending"
    /\ \A m \in 1..(j - 1) : tasks[m].state # "pending"
    /\ Cardinality(Running) < max_threads
    /\ tasks' = [tasks EXCEPT ![j].state = "running"]
    /\ UNCHANGED <<readerVars, callVars, pc, exc, pi, s3_keys, i, appended, dfs,
                   results, ret, printed, parseVars>>

\* The task's read_parquet_from_s3 ends and sets the future.
WorkerFinish(j) ==
    /\ tasks[j].state = "running"
    /\ LET r == read_parquet_from_s3(s3_keys[j]) IN
       /\ tasks' = [tasks EXCEPT ![j].state = "done", ![j].ok = r.ok,
                                 ![j].value = r.value]
       /\ printed' = IF r.error THEN printed \cup {<<"error", s3_keys[j]>>}
                     ELSE printed
    /\ UNCHANGED <<readerVars, callVars, pc, exc, pi, s3_keys, i, appended, dfs,
                   results, ret, parseVars>>

\* Lines 83-93: as_completed yields a finished future not yet yielded.
Collect(j) ==
    /\ pc = "collect"
    /\ tasks[j].state = "done" /\ ~tasks[j].yielded
    /\ tasks' = [tasks EXCEPT ![j].yielded = TRUE]
    /\ LET key == KeyOfFuture(j) IN
       IF tasks[j].ok
       THEN /\ dfs' = Append(dfs, AttachPartitions(tasks[j].value, key))
            /\ appended' = Append(appended, j)
            /\ printed' = printed
       ELSE /\ printed' = printed \cup {<<"error", key>>}
            /\ UNCHANGED <<dfs, appended>>
    /\ UNCHANGED <<readerVars, callVars, pc, exc, pi, s3_keys, i, results, ret,
                   parseVars>>

\* The mutant: the wait ends with the first finished future, and the pool is
\* shut down without waiting.
PoolExitFirstCompleted ==
    /\ pc = "collect"
    /\ \E j \in 1..Len(tasks) : tasks[j].yielded
    /\ pc' = "merge"
    /\ UNCHANGED <<readerVars, callVars, exc, pi, s3_keys, i, tasks, appended,
                   dfs, results, ret, printed, parseVars>>

\* as_completed is exhausted, and the with block's shutdown(wait=True) returns.
PoolExit ==
    /\ pc = "collect"
    /\ \A j \in 1..Len(tasks) : tasks[j].yielded
    /\ \A j \in 1..Len(tasks) : tasks[j].state = "done"
    /\ pc' = "merge"
    /\ UNCHANGED <<readerVars, callVars, exc, pi, s3_keys, i, tasks, appended,
                   dfs, results, ret, printed, parseVars>>

\* Line 102.
Merge ==
    /\ pc = "merge"
    /\ LET r == Concat(dfs) IN
       IF r.ok
       THEN Return(r.value) /\ exc' = exc
       ELSE Raise("concat") /\ UNCHANGED <<results, ret, pi>>
    /\ UNCHANGED <<readerVars, callVars, s3_keys, i, tasks, appended, dfs,
                   printed, parseVars>>

\* Line 114.
CatMerge ==
    /\ pc = "cat_merge"
    /\ LET r == Concat(CategoryTables) IN
       IF r.ok
       THEN ret' = r.value /\ pc' = "done" /\ exc' = exc
       ELSE Raise("concat") /\ ret' = ret
    /\ UNCHANGED <<readerVars, callVars, pi, s3_keys, i, tasks, appended, dfs,
                   results, printed, parseVars>>

Next ==
    \/ \E f \in Filepaths, c \in ExtractOptions, v \in BOOLEAN : CallMultiple(f, c, v)
    \/ \E ps \in PrefixLists, v \in BOOLEAN : CallCategories(ps, v)
    \/ ListKeys
    \/ ListKeysRaises
    \/ ReadNext
    \/ ExtractAll
    \/ Submit
    \/ \E j \in 1..Len(tasks) : WorkerStart(j)
    \/ \E j \in 1..Len(tasks) : WorkerFinish(j)
    \/ \E j \in 1..Len(tasks) : Collect(j)
    \/ PoolExit
    \/ Merge
    \/ CatMerge

Spec == Init /\ [][Next]_vars

\* The reader on a store where no key, one key or every key fails to read.
LiveInit == Init /\ corrupt \in {{}, {P_Y1}, ParquetKeys}

\* The calling thread keeps running and every worker's task ends: no step
\* that can be taken is put off forever.
LiveSpec == LiveInit /\ [][Next]_vars /\ WF_vars(Next)

\* ------------------------------------------------------------ _parse_s3_key alone
InitParse ==
    /\ use_multithreading = FALSE /\ max_threads = 1 /\ corrupt = {}
    /\ Idle
    /\ p_pc = "in" /\ p_key \in Strings(MaxLen) /\ p_cols \in ParseSpecs
    /\ p_details = EmptyDict

ParseCall ==
    /\ p_pc = "in"
    /\ p_details' = _parse_s3_key(p_key, p_cols)
    /\ p_pc' = "out"
    /\ UNCHANGED <<readerVars, callVars, pc, exc, pi, s3_keys, i, tasks, appended,
                   dfs, results, ret, printed, p_key, p_cols>>

NextParse == ParseCall

SpecParse == InitParse /\ [][NextParse]_vars

\* ------------------------------------------------------------ what the claims speak of
RECURSIVE SumRows(_)
SumRows(keys) ==
    IF keys = <<>> THEN 0 ELSE StoredRows(Head(keys)) + SumRows(Tail(keys))

\* The cells of the data column, in row order.
Cells(df) == [n \in 1..Len(df.rows) |-> <<df.rows[n].key, df.rows[n].pos>>]

\* The cells a key gives: those stored under it, none when it cannot be read.
CellsOfKey(key) ==
    IF key \in corrupt THEN <<>>
    ELSE [n \in 1..StoredRows(key) |-> <<key, n - 1>>]

RECURSIVE CellsInOrder(_, _)
CellsInOrder(keys, order) ==
    IF order = <<>> THEN <<>>
    ELSE CellsOfKey(keys[Head(order)]) \o CellsInOrder(keys, Tail(order))

Readable(keys) == SelectSeq(keys, LAMBDA k : k \notin corrupt)

FreshIndex(df) == df.index = [n \in 1..Len(df.rows) |-> n - 1]

IsPermutation(order, n) ==
    Len(order) = n /\ \A m \in 1..n : \E j \in 1..n : order[j] = m

Finished == pc \in {"done", "raised"}

AllTasksDone == \A j \in 1..Len(tasks) : tasks[j].state = "done"

\* The parquet keys under a prefix, as the store holds them.
KeysUnder(prefix) ==
    LET dir == IF prefix # <<>> /\ prefix[Len(prefix)] = "/" THEN prefix
               ELSE prefix \o <<"/">>
    IN  {k \in ParquetKeys : Len(k) >= Len(dir) /\ \A n \in 1..Len(dir) : k[n] = dir[n]}

CellsUnder(prefix) ==
    UNION {{<<k, n - 1>> : n \in 1..StoredRows(k)} : k \in KeysUnder(prefix) \ corrupt}

\* ------------------------------------------------------------ C1
\* C1: when every listed key is read without error, the table that
\* read_multiple_parquets_from_s3 returns has as many rows as the listed keys
\* store together, and every stored row is in it exactly once, sequentially
\* and on the pool alike.
C1_RowCountIsSum ==
    (pc = "done" /\ api = "multi" /\ s3_keys # <<>> /\ Range(s3_keys) \cap corrupt = {})
    => /\ Len(ret.rows) = SumRows(s3_keys)
       /\ \A k \in Range(s3_keys) : \A n \in 0..(StoredRows(k) - 1) :
            Cardinality({r \in 1..Len(ret.rows) : Cells(ret)[r] = <<k, n>>}) = 1

C1_Witness ==
    /\ pc = "done" /\ api = "multi" /\ use_multithreading
    /\ Len(s3_keys) = 3 /\ Range(s3_keys) \cap corrupt = {}
    /\ appended = <<2, 3, 1>> /\ Len(ret.rows) = 4

\* ------------------------------------------------------------ C2
\* C2: once keys are listed, read_multiple_parquets_from_s3 raises nothing
\* whatever keys fail; every key is fetched, each failing key gives a table of
\* no rows, and the rows returned are exactly those of the keys that were read.
C2_PartialFailureIsolated ==
    (api = "multi" /\ s3_keys # <<>>)
    => /\ pc # "raised"
       /\ pc = "done" =>
            /\ Len(dfs) = Len(s3_keys)
            /\ IF use_multithreading
               THEN Len(tasks) = Len(s3_keys) /\ AllTasksDone
               ELSE i = Len(s3_keys) + 1
            /\ \A j \in 1..Len(dfs) :
                 s3_keys[appended[j]] \in corrupt => dfs[j].rows = <<>>
            /\ Len(ret.rows) = SumRows(Readable(s3_keys))
            /\ Range(Cells(ret)) = UNION {Range(CellsOfKey(k)) : k \in Range(s3_keys)}

C2_Witness ==
    /\ pc = "done" /\ api = "multi" /\ use_multithreading /\ extract_columns # <<>>
    /\ Len(s3_keys) = 3 /\ s3_keys[2] \in corrupt /\ s3_keys[1] \notin corrupt
    /\ Len(ret.rows) = 2

\* ------------------------------------------------------------ C3
\* C3: when no key is listed, read_multiple_parquets_from_s3 returns the empty
\* table, and no fetch, no pool and no merge happens: these are reached only
\* with keys.
C3_NoKeysReturnsEmpty ==
    /\ pc \in {"read", "submit", "collect", "merge"} => s3_keys # <<>>
    /\ (api = "multi" /\ Finished /\ exc # "list" /\ s3_keys = <<>>)
       => /\ pc = "done"
          /\ ret = EmptyDataFrame /\ ret.rows = <<>> /\ ret.columns = {}
          /\ tasks = <<>> /\ dfs = <<>> /\ i = 1

C3_Witness ==
    /\ pc = "done" /\ api = "multi" /\ s3_keys = <<>>
    /\ use_multithreading /\ verbose /\ extract_columns # <<>>
    /\ prefixes = <<<<"q">>>>

\* ------------------------------------------------------------ C4
Pairs(details) == {<<c, details[c]>> : c \in DOMAIN details}

Count(s, c) == Cardinality({n \in 1..Len(s) : s[n] = c})

\* C4 as claimed: the mapping holds c with v exactly when c is asked for and
\* some segment with exactly one '=' has c on its left and v on its right.
C4_ExactlyOneEquals ==
    p_pc = "out" =>
      LET segs == Split(p_key, "/") IN
      Pairs(p_details) =
        {<<c, v>> \in UNION {{<<SubSeq(segs[n], 1, m - 1),
                                SubSeq(segs[n], m + 1, Len(segs[n]))>> :
                               m \in {q \in 1..Len(segs[n]) : segs[n][q] = "="}} :
                             n \in {q \in 1..Len(segs) : Count(segs[q], "=") = 1}} :
           c \in Range(p_cols)}

\* C4, amended: the mapping holds c exactly when c is asked for and some
\* segment with at least one '=' has c before its first '='; the value is what
\* follows the first '=' of the last such segment.
C4_LastSegmentFirstEquals ==
    p_pc = "out" =>
      LET segs == Split(p_key, "/")
          Before(n) == SubSeq(segs[n], 1, FirstIndex(segs[n], "=") - 1)
          After(n) == SubSeq(segs[n], FirstIndex(segs[n], "=") + 1, Len(segs[n]))
          Naming(c) == {n \in 1..Len(segs) : Count(segs[n], "=") >= 1 /\ Before(n) = c}
          Last(c) == CHOOSE n \in Naming(c) : \A m \in Naming(c) : m <= n
      IN  /\ DOMAIN p_details = {c \in Range(p_cols) : Naming(c) # {}}
          /\ \A c \in DOMAIN p_details : p_details[c] = After(Last(c))

C4_Witness ==
    /\ p_pc = "out"
    /\ p_key = <<"y", "=", "/", "y", "=", "=">>
    /\ p_details = [c \in {<<"y">>} |-> <<"=">>]

\* ------------------------------------------------------------ C5
\* C5 as claimed: a call on a prefix, or on a prefix list that is not empty,
\* never leaves by an exception.
C5_NoFatalErrorPath == prefixes # <<>> => pc # "raised"

\* C5, amended: the exceptions of the per-key fetch and decode are absorbed as
\* missing data; a call on a prefix, or on a prefix list that is not empty,
\* leaves by an exception only when the key enumeration raised it.
C5_OnlyEnumerationRaises ==
    /\ (prefixes # <<>> /\ pc = "raised") => exc = "list"
    /\ (pc = "done" /\ prefixes # <<>>) =>
          \A k \in Range(s3_keys) \cap corrupt : <<"error", k>> \in printed

C5_Witness ==
    /\ pc = "done" /\ api = "cat" /\ Len(prefixes) = 2
    /\ \E k \in Range(s3_keys) \cap corrupt : <<"error", k>> \in printed

\* ------------------------------------------------------------ C6
\* C6: read_all_categories on an empty prefix list returns the empty table
\* and raises nothing.
C6_EmptyListReturnsEmpty ==
    (api = "cat" /\ prefixes = <<>> /\ Finished)
    => (pc = "done" /\ ret = EmptyDataFrame)

\* ------------------------------------------------------------ C7
\* C7: read_all_categories returns the per-prefix tables concatenated in
\* prefix-list order, each holding the rows read_multiple_parquets_from_s3
\* gives for its prefix on this store, nothing merged across prefixes; and
\* while a task of one prefix is unfinished nothing of the next has started.
C7_CategoriesConcatenateInOrder ==
    /\ (api = "cat" /\ pc = "done") =>
          /\ Len(results) = Len(prefixes)
          /\ \A n \in 1..Len(results) :
               /\ Range(Cells(results[n])) = CellsUnder(prefixes[n])
               /\ Len(results[n].rows) = Cardinality(CellsUnder(prefixes[n]))
          /\ Cells(ret) = Cells([rows |-> FlattenRows(results)])
          /\ FreshIndex(ret)
    /\ ~AllTasksDone => (pc = "collect" /\ Len(results) = pi - 1)

C7_Witness ==
    /\ api = "cat" /\ pc = "done" /\ use_multithreading
    /\ prefixes = <<<<"p", "2">>, <<"p", "2">>>> /\ corrupt = {}
    /\ Len(ret.rows) = 2 /\ ret.rows[1] = ret.rows[2]

\* ------------------------------------------------------------ C8
\* C8: with extract_columns, the tables handed to the merge are one per
\* listed key, and each carries the partition columns and values of its own
\* key, in every completion order.
C8_OwnPartitionColumns ==
    (pc = "merge" /\ extract_columns # <<>>)
    => /\ Len(dfs) = Len(s3_keys)
       /\ IsPermutation(appended, Len(s3_keys))
       /\ \A j \in 1..Len(dfs) :
            LET key == s3_keys[appended[j]]
                own == _parse_s3_key(key, extract_columns)
            IN  /\ dfs[j].columns =
                     (IF key \in corrupt THEN {} ELSE {DataColumn}) \cup DOMAIN own
                /\ Len(dfs[j].rows) = Len(CellsOfKey(key))
                /\ \A n \in 1..Len(dfs[j].rows) :
                     dfs[j].rows[n].key = key /\ dfs[j].rows[n].part = own

C8_Witness ==
    /\ pc = "merge" /\ use_multithreading /\ Len(extract_columns) = 2
    /\ appended = <<3, 1, 2>> /\ corrupt = {}
    /\ dfs[1].columns = {DataColumn, <<"y">>, <<"m">>}
    /\ dfs[2].columns = {DataColumn}

\* ------------------------------------------------------------ C9
\* C9: the returned rows are the per-key blocks in the order the tables were
\* appended, which without the pool is the enumeration order, and the row
\* identifiers are 0..N-1 afresh.
C9_OrderAndFreshIndex ==
    (pc = "done" /\ api = "multi")
    => /\ FreshIndex(ret)
       /\ Cells(ret) = CellsInOrder(s3_keys, appended)
       /\ ~use_multithreading => appended = [n \in 1..Len(s3_keys) |-> n]

\* On the pool the blocks come in completion order, not enumeration order.
C9_Witness ==
    /\ pc = "done" /\ api = "multi" /\ use_multithreading
    /\ appended = <<3, 2, 1>> /\ corrupt = {}
    /\ ret.index = <<0, 1, 2, 3>>
    /\ ret.rows[1].key = P_Y2_M5 /\ ret.rows[4].key = P_G

\* ------------------------------------------------------------ C10
\* C10: on the pool one task is submitted per listed key, the merge is
\* reached only when every task has ended, whether its read failed or not,
\* and with every task ending the wait for them ends.
C10_MergeAfterAllTasks ==
    /\ [](pc = "collect" => Len(tasks) = Len(s3_keys))
    /\ []((use_multithreading /\ pc = "merge") => (tasks # <<>> /\ AllTasksDone))
    /\ (pc = "collect") ~> (pc = "merge")

C10_Witness ==
    /\ pc = "merge" /\ use_multithreading /\ max_threads = 1
    /\ Len(tasks) = 3 /\ AllTasksDone
    /\ s3_keys[2] \in corrupt /\ s3_keys[3] \notin corrupt

====
